---- MODULE Spec2Model ----
(***************************************************************************)
(* Business Protection Core of the Instabids homeowner swarm:              *)
(*   - CostCircuitBreaker   (src/core/security/cost_breaker.py)            *)
(*   - ViolationTracker     (src/core/security/violation_tracker.py)       *)
(*   - ContactProtectionFilter (src/core/security/contact_filter.py)       *)
(*   - the cost-incurring operations of src/agents/homeowner_intake        *)
(* Costs are integers in an abstract cost unit; the clock counts hours.    *)
(* Calls to the MCP tools (Redis, Supabase) are the environment: each call *)
(* either returns or raises, chosen nondeterministically.                  *)
(***************************************************************************)
EXTENDS Integers, Sequences, FiniteSets, TLC

(***************************************************************************)
(* Bounds of the model                                                     *)
(***************************************************************************)
\* hours in one model day (datetime.hour wraps after this many ticks)
HoursPerDay == 2
\* last clock value explored
MaxTime == 3
\* largest value daily_cost / hourly_cost may reach through record calls
MaxTotal == 4
\* largest daily cost the store answers to get_daily_cost
MaxStoreCost == 3
\* largest number of entries of violation_history explored
MaxHistory == 2
\* largest number of process_violation calls explored per user
MaxViolations == 4
\* largest number of entries of violation_history explored where the
\* suspicious-pattern detection is looked at
MaxAdvisoryHistory == 4
\* largest number of words of a scanned content
MaxWords == 2
\* largest number of near-ceiling check calls counted within five minutes
MaxRequests == 5
\* largest number of characters of a filtered content, and of matches in it
MaxChars == 4
MaxMatches == 2
\* largest number of times the handler of one event is run
MaxAttempts == 5
\* largest clarification_attempts and security_violations of a conversation,
\* and the most messages with contact information sent to it
MaxClarifications == 6
MaxSecurityViolations == 4
MaxContactMessages == 3
\* timeout_seconds of a lock, in steps of the Redis clock
LockTimeout == 2

(***************************************************************************)
(* Inputs                                                                  *)
(***************************************************************************)
\* estimated costs handed to check_cost_approval
EstimatedCosts == {0, 1, 2}
\* actual costs handed to record_actual_cost
ActualCosts == {1, 2}
\* actual costs of either sign: record_actual_cost takes any float
SignedCosts == {-1, 1}
\* constructor arguments of CostCircuitBreaker explored
Configs ==
  { [per_event_limit |-> 1, hourly_limit |-> 2, daily_limit |-> 2, emergency_threshold |-> 3] }

\* answers of the store to get_daily_cost: raises, status other than
\* "success", or success with a daily_cost
StoreAnswers ==
  {[status |-> "raise", daily_cost |-> 0], [status |-> "error", daily_cost |-> 0]}
    \cup {[status |-> "success", daily_cost |-> v] : v \in 0 .. MaxStoreCost}

\* users of the marketplace
Users == {"u1"}
\* ViolationSeverity
Severities == {"low", "medium", "high", "critical"}
\* what the history query of get_user_violation_profile does: returns the
\* stored rows, returns nothing (the MCPClient of the repository), or raises
ReadOutcomes == {"rows", "none", "raise"}
\* what the MCP calls of one enforcement action do: all return, the first
\* raises, or the second raises
EnforceOutcomes == {"ok", "first_raises", "second_raises"}

VARIABLES
  now,                \* datetime.utcnow(), in hours
  cfg,                \* daily_limit, per_event_limit, hourly_limit, emergency_threshold
  daily_cost,
  hourly_cost,
  current_hour,
  last_reset,
  is_shutdown,
  shutdown_reason,
  violation_history,
  security_violations,\* Supabase table security_violations, per user, oldest first
  restrictions,       \* Redis key user:restrictions:<user>: NoKey, NoExpiry or its expiry
  suspension,         \* Redis key user:suspension:<user>: NoKey, NoExpiry or its expiry
  ban,                \* Redis key user:ban:<user> exists
  user_bans,          \* Supabase table user_bans has a row of the user
  calls_made,         \* history: number of process_violation calls made, per user
  only_low,           \* history: every call made for the user had severity low
  recorded_today,     \* ledger: sum of actual costs recorded in the current date
  recorded_this_hour, \* ledger: sum of actual costs recorded in the current hour
  last,               \* history: the latest call and what it returned
  calls,              \* the process_violation calls in flight, by task
  serial_level,       \* history: the level of the user had the calls run one by one
  clean,              \* history: no read and no write of the store has failed
  pending,            \* the check_cost_approval call awaiting the store, if any
  scanned,            \* history: the latest call of the contact filter and its outcome
  operation,          \* history: the latest cost-incurring operation and how it went
  near_ceiling,       \* history: check calls above 80% of the per-event limit in the last five minutes
  published,          \* history: the latest publish_event call and what went to the stream
  delivery,           \* per event: its copy in the stream, and what became of the copies consumed
  conversation,       \* the conversation the store holds, and the latest reply of the handler
  locks               \* the lock keys in Redis, and the sections each caller is inside

breakerVars == <<cfg, daily_cost, hourly_cost, current_hour, last_reset,
                 is_shutdown, shutdown_reason, violation_history>>
trackerVars == <<security_violations, restrictions, suspension, ban, user_bans,
                 calls_made, only_low>>
vars == <<now, cfg, daily_cost, hourly_cost, current_hour, last_reset,
          is_shutdown, shutdown_reason, violation_history,
          security_violations, restrictions, suspension, ban, user_bans,
          calls_made, only_low,
          recorded_today, recorded_this_hour, last,
          calls, serial_level, clean, pending,
          scanned, operation, near_ceiling, published,
          delivery, conversation, locks>>

\* datetime.utcnow().date() and datetime.utcnow().hour
DateOf(t) == t \div HoursPerDay
HourOf(t) == t % HoursPerDay

NoCall == [op |-> "none"]

\* the asyncio tasks that may run process_violation at the same time
Tasks == {"t1", "t2"}
\* a task that is not inside process_violation
Idle == [pc |-> "idle"]
\* no check_cost_approval call is suspended
NoCheck == [active |-> FALSE]

(***************************************************************************)
(* CostCircuitBreaker.__init__                                             *)
(***************************************************************************)
BreakerInit ==
  /\ cfg \in Configs
  /\ daily_cost = 0
  /\ hourly_cost = 0
  /\ current_hour = HourOf(now)
  /\ last_reset = DateOf(now)
  /\ is_shutdown = FALSE
  /\ shutdown_reason = "none"
  /\ violation_history = << >>

\* a Redis key that does not exist, and one without a time to live
NoKey == -1
NoExpiry == -2

\* the store before any violation
TrackerInit ==
  /\ security_violations = [u \in Users |-> << >>]
  /\ restrictions = [u \in Users |-> NoKey]
  /\ suspension = [u \in Users |-> NoKey]
  /\ ban = [u \in Users |-> FALSE]
  /\ user_bans = [u \in Users |-> FALSE]
  /\ calls_made = [u \in Users |-> 0]
  /\ only_low = [u \in Users |-> TRUE]

Init ==
  /\ now = 0
  /\ BreakerInit
  /\ TrackerInit
  /\ recorded_today = 0
  /\ recorded_this_hour = 0
  /\ last = NoCall
  /\ calls = [t \in Tasks |-> Idle]
  /\ serial_level = [u \in Users |-> 0]
  /\ clean = [u \in Users |-> TRUE]
  /\ pending = NoCheck
  /\ scanned = NoCall
  /\ operation = NoCall
  /\ near_ceiling = 0
  /\ published = NoCall
  /\ locks = [ttl |-> [k \in {"lock:k1", "lock:k2"} |-> 0],
              inside |-> [c \in {"a1", "a2", "a3"} |-> {}]]
  /\ conversation = [context |-> [state |-> "none"], reply |-> "none", contact_messages |-> 0]
  /\ delivery = [e \in {"e1", "e2"} |-> [live |-> FALSE, retry_count |-> 0, republished |-> 0,
                                         attempts |-> 0, acknowledged |-> 0,
                                         unacknowledged |-> 0, dead_letter |-> FALSE]]

(***************************************************************************)
(* _update_cost_tracking: the state after the call, as a record            *)
(***************************************************************************)
\* daily_cost after the lazy date reset
DailyAfterRollover == IF DateOf(now) > last_reset THEN 0 ELSE daily_cost
\* hourly_cost after the lazy hour reset
HourlyAfterRollover == IF HourOf(now) # current_hour THEN 0 ELSE hourly_cost

\* daily_cost after _update_cost_tracking, the store answering ans
DailyAfterUpdate(ans) ==
  IF ans.status = "success" THEN ans.daily_cost ELSE DailyAfterRollover

(***************************************************************************)
(* _log_cost_violation                                                     *)
(***************************************************************************)
HistoryCap == 100

LogCostViolation(h, v) ==
  LET a == Append(h, v)
  IN  IF Len(a) > HistoryCap
        THEN SubSeq(a, Len(a) - HistoryCap + 1, Len(a))
        ELSE a

Violation(type, cost) == [estimated_cost |-> cost, timestamp |-> now]

(***************************************************************************)
(* _detect_suspicious_patterns                                             *)
(***************************************************************************)
Last(h, n) == IF Len(h) <= n THEN h ELSE SubSeq(h, Len(h) - n + 1, Len(h))

\* (utcnow() - timestamp).seconds < 300: timedelta.seconds leaves the days out
WithinFiveMinutes(ts) == ((now - ts) % HoursPerDay) * 3600 < 300

DetectSuspiciousPatterns(est) ==
  LET recent == Last(violation_history, 10)
      recent_expensive == {i \in 1 .. Len(recent) : WithinFiveMinutes(recent[i].timestamp)}
      recent_costs == Last(violation_history, 5)
  IN  IF 10 * est > 8 * cfg.per_event_limit /\ Cardinality(recent_expensive) > 3
        THEN "HIGH_FREQUENCY_EXPENSIVE_OPERATIONS"
      ELSE IF Len(violation_history) > 5
              /\ \A i \in 1 .. Len(recent_costs) :
                    2 * recent_costs[i].estimated_cost > cfg.per_event_limit
        THEN "RAPID_COST_ESCALATION"
      ELSE "none"

(***************************************************************************)
(* The comparisons of check_cost_approval and record_actual_cost           *)
(***************************************************************************)
ExceedsPerEvent_Never(est) == FALSE
\* if estimated_cost > self.per_event_limit
ExceedsPerEvent(est) == est > cfg.per_event_limit
ExceedsDaily_Never(projected) == FALSE
\* if projected_daily > self.daily_limit
ExceedsDaily(projected) == projected > cfg.daily_limit
ExceedsEmergency_AsDailyLimit(projected) == projected > cfg.daily_limit
\* if projected_daily > self.emergency_threshold
ExceedsEmergency(projected) == projected > cfg.emergency_threshold
\* if projected_hourly > self.hourly_limit
ExceedsHourly(projected) == projected > cfg.hourly_limit
\* record_actual_cost: if self.daily_cost > self.emergency_threshold
RecordTrips(daily) == daily > cfg.emergency_threshold
ApprovedWith_OnlyWithoutWarning(pattern_warning) == pattern_warning = "none"
\* lines 218-223: "approved": True, whatever _detect_suspicious_patterns returned
ApprovedWith(pattern_warning) == TRUE
KeyAccepted_AnyKey(key_ok) == TRUE
\* reset_circuit_breaker: admin_key != "admin_reset_key_placeholder" is false
KeyAccepted(key_ok) == key_ok

(***************************************************************************)
(* check_cost_approval(estimated_cost), the store answering ans            *)
(***************************************************************************)
\* the call from _update_cost_tracking on: the breaker was not shut down at
\* line 132
CheckClosed(est, ans) ==
  LET daily == DailyAfterUpdate(ans)
      hourly == HourlyAfterRollover
      projected_daily == daily + est
      projected_hourly == hourly + est
  IN
  \* _update_cost_tracking
  /\ daily_cost' = daily
  /\ hourly_cost' = hourly
  /\ last_reset' = IF DateOf(now) > last_reset THEN DateOf(now) ELSE last_reset
  /\ current_hour' = HourOf(now)
  /\ IF ExceedsPerEvent(est)
       THEN /\ violation_history' =
                 LogCostViolation(violation_history, Violation("per_event_exceeded", est))
            /\ last' = [op |-> "check", est |-> est, approved |-> FALSE,
                        reason |-> "per_event_exceeded", warning |-> "PER_EVENT_LIMIT_EXCEEDED"]
            /\ UNCHANGED <<is_shutdown, shutdown_reason>>
     ELSE IF ExceedsDaily(projected_daily)
       THEN /\ last' = [op |-> "check", est |-> est, approved |-> FALSE,
                        reason |-> "daily_limit_exceeded", warning |-> "DAILY_LIMIT_EXCEEDED"]
            /\ IF ExceedsEmergency(projected_daily)
                 THEN \* _trigger_emergency_shutdown
                      /\ is_shutdown' = TRUE
                      /\ shutdown_reason' = "projection_exceeds_emergency_threshold"
                      /\ violation_history' =
                           LogCostViolation(
                             LogCostViolation(violation_history,
                                              Violation("daily_limit_exceeded", est)),
                             Violation("emergency_shutdown", 0))
                 ELSE /\ violation_history' =
                           LogCostViolation(violation_history,
                                            Violation("daily_limit_exceeded", est))
                      /\ UNCHANGED <<is_shutdown, shutdown_reason>>
     ELSE IF ExceedsHourly(projected_hourly)
       THEN /\ violation_history' =
                 LogCostViolation(violation_history, Violation("hourly_rate_exceeded", est))
            /\ last' = [op |-> "check", est |-> est, approved |-> FALSE,
                        reason |-> "hourly_rate_exceeded", warning |-> "HOURLY_RATE_EXCEEDED"]
            /\ UNCHANGED <<is_shutdown, shutdown_reason>>
     ELSE /\ last' = [op |-> "check", est |-> est,
                        approved |-> ApprovedWith(DetectSuspiciousPatterns(est)),
                        reason |-> "granted", warning |-> DetectSuspiciousPatterns(est)]
          /\ UNCHANGED <<is_shutdown, shutdown_reason, violation_history>>

CheckCost(est, ans) ==
  /\ UNCHANGED <<now, cfg>>
  /\ UNCHANGED trackerVars
  /\ IF is_shutdown
       THEN \* emergency shutdown check, before any update
            /\ last' = [op |-> "check", est |-> est, approved |-> FALSE,
                               reason |-> "emergency_shutdown", warning |-> "EMERGENCY_SHUTDOWN_ACTIVE"]
            /\ UNCHANGED <<daily_cost, hourly_cost, current_hour, last_reset,
                           is_shutdown, shutdown_reason, violation_history>>
       ELSE CheckClosed(est, ans)

(***************************************************************************)
(* record_actual_cost(actual_cost); mcp_ok: both MCP calls returned        *)
(***************************************************************************)
RecordCost(cost, mcp_ok) ==
  /\ daily_cost + cost <= MaxTotal
  /\ hourly_cost + cost <= MaxTotal
  /\ daily_cost' = daily_cost + cost
  /\ hourly_cost' = hourly_cost + cost
  /\ IF mcp_ok /\ RecordTrips(daily_cost + cost)
       THEN \* _trigger_emergency_shutdown
            /\ is_shutdown' = TRUE
            /\ shutdown_reason' = "emergency_threshold_exceeded"
            /\ violation_history' =
                 LogCostViolation(violation_history, Violation("emergency_shutdown", 0))
       ELSE UNCHANGED <<is_shutdown, shutdown_reason, violation_history>>
  /\ last' = [op |-> "record", cost |-> cost]
  /\ UNCHANGED <<now, cfg, current_hour, last_reset>>
  /\ UNCHANGED trackerVars

(***************************************************************************)
(* reset_circuit_breaker(admin_key, reason)                                *)
(*   key_ok: admin_key is the authorized key; log_ok: log_admin_action     *)
(*   returned                                                              *)
(***************************************************************************)
ResetBreaker_ClearsTotals(key_ok, log_ok) ==
  /\ IF ~KeyAccepted(key_ok)
       THEN /\ last' = [op |-> "reset", key_ok |-> key_ok, success |-> FALSE]
            /\ UNCHANGED <<is_shutdown, shutdown_reason, daily_cost, hourly_cost>>
       ELSE /\ is_shutdown' = FALSE
            /\ shutdown_reason' = "none"
            /\ daily_cost' = 0
            /\ hourly_cost' = 0
            /\ last' = [op |-> "reset", key_ok |-> key_ok, success |-> log_ok]
  /\ UNCHANGED <<now, cfg, current_hour, last_reset, violation_history>>
  /\ UNCHANGED trackerVars

ResetBreaker(key_ok, log_ok) ==
  /\ IF ~KeyAccepted(key_ok)
       THEN /\ last' = [op |-> "reset", key_ok |-> key_ok, success |-> FALSE]
            /\ UNCHANGED <<is_shutdown, shutdown_reason>>
       ELSE /\ is_shutdown' = FALSE
            /\ shutdown_reason' = "none"
            /\ last' = [op |-> "reset", key_ok |-> key_ok, success |-> log_ok]
  /\ UNCHANGED <<now, cfg, daily_cost, hourly_cost, current_hour, last_reset,
                 violation_history>>
  /\ UNCHANGED trackerVars

(***************************************************************************)
(* check_cost_approval while record_actual_cost runs: the check is         *)
(* suspended at the get_daily_cost call of _update_cost_tracking           *)
(***************************************************************************)
\* lines 132-290: not shut down, the rollover made, the store asked
BeginCheck(est) ==
  /\ ~pending.active
  /\ ~is_shutdown
  /\ daily_cost' = DailyAfterRollover
  /\ hourly_cost' = HourlyAfterRollover
  /\ last_reset' = IF DateOf(now) > last_reset THEN DateOf(now) ELSE last_reset
  /\ current_hour' = HourOf(now)
  /\ pending' = [active |-> TRUE, est |-> est,
                 daily_cost |-> daily_cost, hourly_cost |-> hourly_cost,
                 new_date |-> DateOf(now) > last_reset,
                 new_hour |-> HourOf(now) # current_hour,
                 recorded |-> 0]
  /\ UNCHANGED <<now, cfg, is_shutdown, shutdown_reason, violation_history, last>>
  /\ UNCHANGED trackerVars

\* lines 292-223: the store has answered, the call goes on to its end
EndCheck(ans) ==
  /\ pending.active
  /\ CheckClosed(pending.est, ans)
  /\ pending' = NoCheck
  /\ UNCHANGED <<now, cfg>>
  /\ UNCHANGED trackerVars

\* record_actual_cost, which may run while a check is suspended
RecordMeanwhile(cost, mcp_ok) ==
  /\ RecordCost(cost, mcp_ok)
  /\ pending' = IF pending.active
                  THEN [pending EXCEPT !.recorded = @ + cost]
                  ELSE pending

(***************************************************************************)
(* ViolationTracker.__init__: escalation_rules and severity_multipliers    *)
(***************************************************************************)
\* max(self.escalation_rules.keys())
MaxLevel == 4

\* self.escalation_rules[level]["action"]
EscalationAction(level) ==
  CASE level = 1 -> "warning"
    [] level = 2 -> "messaging_restriction"
    [] level = 3 -> "account_suspension"
    [] level = 4 -> "permanent_ban"

\* self.escalation_rules[level]["duration_hours"], 0 for None
DurationHours(level) ==
  CASE level = 2 -> 24
    [] level = 3 -> 168
    [] OTHER -> 0

\* self.severity_multipliers[severity]
SeverityPoints(severity) ==
  CASE severity = "low" -> 1
    [] severity = "medium" -> 2
    [] severity = "high" -> 3
    [] severity = "critical" -> 5

Min(a, b) == IF a < b THEN a ELSE b

\* a duration in hours, in ticks of the model clock (a day is HoursPerDay ticks)
DurationTicks(hours) == (hours * HoursPerDay) \div 24

(***************************************************************************)
(* get_user_violation_profile: the escalation level of the profile         *)
(***************************************************************************)
\* ORDER BY timestamp DESC LIMIT 50
HistoryLimit == 50

\* the highest escalation_level among the rows returned, 0 when there is none
HighestLevel(rows) ==
  IF Len(rows) = 0 THEN 0
  ELSE CHOOSE m \in {rows[i].escalation_level : i \in 1 .. Len(rows)} :
         \A i \in 1 .. Len(rows) : rows[i].escalation_level <= m

ProfileLevel(user, read) ==
  IF read = "rows"
    THEN HighestLevel(Last(security_violations[user], HistoryLimit))
    ELSE 0

(***************************************************************************)
(* Redis keys with a time to live                                          *)
(***************************************************************************)
KeyLive(key) == key = NoExpiry \/ key > now
\* hset keeps the time to live of a key that exists
AfterHset(key) == IF KeyLive(key) THEN key ELSE NoExpiry
\* hset then expire, the calls doing what enf says
AfterRestrict(key, hours, enf) ==
  CASE enf = "first_raises" -> key
    [] enf = "second_raises" -> AfterHset(key)
    [] enf = "ok" -> now + DurationTicks(hours)
\* a key is deleted when its time to live is over
Expire(key, t) == IF key >= 0 /\ key <= t THEN NoKey ELSE key

(***************************************************************************)
(* _get_account_status, the three hgetall calls returning                  *)
(***************************************************************************)
AccountStatus(restriction_key, suspension_key, banned) ==
  IF KeyLive(restriction_key) THEN "restricted"
  ELSE IF KeyLive(suspension_key) THEN "suspended"
  ELSE IF banned THEN "banned"
  ELSE "active"

(***************************************************************************)
(* process_violation(user_id, violation_type, content, severity)           *)
(*   read: what the history query does; write_ok: the INSERT of the record *)
(*   returned; enf: what the MCP calls of the enforcement action do        *)
(***************************************************************************)
\* new_escalation_level = min(profile level + severity_points, max level)
NewEscalationLevel(level, severity) == Min(level + SeverityPoints(severity), MaxLevel)

\* lines 160-162: if severity in [HIGH, CRITICAL]: await self._send_admin_alert
SendsAdminAlert(severity) == severity \in {"high", "critical"}

\* await self._update_user_escalation_level(...): ViolationTracker defines no
\* such method, the call raises AttributeError and process_violation re-raises
UpdateUserEscalationLevel == "AttributeError"

\* _apply_enforcement_action: a failure is logged and False returned
ApplyEnforcementAction(user, new_level, enf) ==
  LET action == EscalationAction(new_level)
  IN
  /\ restrictions' =
       IF action = "messaging_restriction"
         THEN [restrictions EXCEPT ![user] = AfterRestrict(@, DurationHours(new_level), enf)]
         ELSE restrictions
  /\ suspension' =
       IF action = "account_suspension"
         THEN [suspension EXCEPT ![user] = AfterRestrict(@, DurationHours(new_level), enf)]
         ELSE suspension
  /\ ban' =
       IF action = "permanent_ban" /\ enf # "first_raises"
         THEN [ban EXCEPT ![user] = TRUE]
         ELSE ban
  /\ user_bans' =
       IF action = "permanent_ban" /\ enf = "ok"
         THEN [user_bans EXCEPT ![user] = TRUE]
         ELSE user_bans

ProcessViolation(user, severity, read, write_ok, enf) ==
  LET level == ProfileLevel(user, read)
      new_level == NewEscalationLevel(level, severity)
      action == EscalationAction(new_level)
      record == [escalation_level |-> new_level, action_taken |-> action]
  IN
  /\ calls_made[user] < MaxViolations
  \* _store_violation_record: a failure is logged and False returned
  /\ security_violations' =
       IF write_ok
         THEN [security_violations EXCEPT ![user] = Append(@, record)]
         ELSE security_violations
  /\ ApplyEnforcementAction(user, new_level, enf)
  \* _update_user_escalation_level
  /\ last' = [op |-> "process_violation", user |-> user, severity |-> severity,
              record |-> record, stored |-> write_ok, enforced |-> (enf = "ok"),
              result |-> IF UpdateUserEscalationLevel = "ok" THEN "returned" ELSE "raised",
              error |-> UpdateUserEscalationLevel,
              \* lines 160-162 are reached only when line 158 returns
              admin_alert |-> UpdateUserEscalationLevel = "ok" /\ SendsAdminAlert(severity)]
  /\ calls_made' = [calls_made EXCEPT ![user] = @ + 1]
  /\ only_low' = [only_low EXCEPT ![user] = @ /\ severity = "low"]
  /\ UNCHANGED now
  /\ UNCHANGED breakerVars

(***************************************************************************)
(* process_violation, one await at a time: a task is suspended at each     *)
(* MCP call and another task may run meanwhile                             *)
(***************************************************************************)
\* severities of the calls made at the same time
TaskSeverities == {"low", "medium"}

\* lines 129-149: the profile is read and the record built
BuildRecord(t, user, severity, read) ==
  LET new_level == NewEscalationLevel(ProfileLevel(user, read), severity)
  IN
  /\ calls[t].pc = "idle"
  /\ calls_made[user] < MaxViolations
  /\ calls' = [calls EXCEPT ![t] =
                 [pc |-> "built", user |-> user, severity |-> severity,
                  record |-> [escalation_level |-> new_level,
                              action_taken |-> EscalationAction(new_level)],
                  stored |-> FALSE, enforced |-> FALSE]]
  /\ calls_made' = [calls_made EXCEPT ![user] = @ + 1]
  /\ only_low' = [only_low EXCEPT ![user] = @ /\ severity = "low"]
  /\ serial_level' = [serial_level EXCEPT ![user] = NewEscalationLevel(@, severity)]
  /\ clean' = [clean EXCEPT ![user] = @ /\ read = "rows"]
  /\ UNCHANGED <<security_violations, restrictions, suspension, ban, user_bans>>
  /\ UNCHANGED <<now, last, pending>>
  /\ UNCHANGED breakerVars

\* line 152: await self._store_violation_record(violation_record)
StoreViolationRecord(t, write_ok) ==
  /\ calls[t].pc = "built"
  /\ security_violations' =
       IF write_ok
         THEN [security_violations EXCEPT ![calls[t].user] = Append(@, calls[t].record)]
         ELSE security_violations
  /\ calls' = [calls EXCEPT ![t].pc = "stored", ![t].stored = write_ok]
  /\ clean' = [clean EXCEPT ![calls[t].user] = @ /\ write_ok]
  /\ UNCHANGED <<restrictions, suspension, ban, user_bans, calls_made, only_low>>
  /\ UNCHANGED <<now, last, serial_level, pending>>
  /\ UNCHANGED breakerVars

\* line 155: await self._apply_enforcement_action(violation_record, user_profile)
EnforceRecord(t, enf) ==
  /\ calls[t].pc = "stored"
  /\ ApplyEnforcementAction(calls[t].user, calls[t].record.escalation_level, enf)
  /\ calls' = [calls EXCEPT ![t].pc = "enforced", ![t].enforced = (enf = "ok")]
  /\ UNCHANGED <<security_violations, calls_made, only_low>>
  /\ UNCHANGED <<now, last, serial_level, clean, pending>>
  /\ UNCHANGED breakerVars

\* line 158 and the except clause of lines 175-177: the call ends
EndViolation(t) ==
  /\ calls[t].pc = "enforced"
  /\ last' = [op |-> "process_violation", user |-> calls[t].user,
              severity |-> calls[t].severity, record |-> calls[t].record,
              stored |-> calls[t].stored, enforced |-> calls[t].enforced,
              result |-> IF UpdateUserEscalationLevel = "ok" THEN "returned" ELSE "raised",
              error |-> UpdateUserEscalationLevel,
              admin_alert |-> UpdateUserEscalationLevel = "ok"
                                /\ SendsAdminAlert(calls[t].severity)]
  /\ calls' = [calls EXCEPT ![t] = Idle]
  /\ UNCHANGED trackerVars
  /\ UNCHANGED <<now, serial_level, clean, pending>>
  /\ UNCHANGED breakerVars

(***************************************************************************)
(* The clock advances by one hour                                          *)
(***************************************************************************)
AdvanceClock ==
  /\ now < MaxTime
  /\ now' = now + 1
  /\ last' = [op |-> "tick"]
  /\ restrictions' = [u \in Users |-> Expire(restrictions[u], now + 1)]
  /\ suspension' = [u \in Users |-> Expire(suspension[u], now + 1)]
  /\ UNCHANGED <<security_violations, ban, user_bans,
                 calls_made, only_low>>
  /\ UNCHANGED breakerVars

(***************************************************************************)
(* ContactProtectionFilter                                                 *)
(* A content is a text of words separated by single blanks, or a value     *)
(* that is not a text (None, a number).  A match carries the words it      *)
(* touches, first to last, instead of its character span.                  *)
(***************************************************************************)
\* a phone number, as phone patterns 1, 6, 9 and 11 match it
PhoneLiteral == "555-123-4567"
\* an email address, as email patterns 1 and 3 match it
AddressLiteral == "a@b.com"
\* the words of the contents explored
Words == {"hello", "call", "me", "at", "email", PhoneLiteral, AddressLiteral}
\* the "type" of a violation: those the detectors produce, and any other
MatchTypes == {"phone_number", "email_address", "social_media", "contact_intent",
               "contact_provision", "contact_imperative", "other"}

\* _get_replacement_text
GetReplacementText(violation_type) ==
  CASE violation_type = "phone_number" -> "[PHONE NUMBER BLOCKED]"
    [] violation_type = "email_address" -> "[EMAIL BLOCKED]"
    [] violation_type = "social_media" -> "[SOCIAL MEDIA BLOCKED]"
    [] violation_type = "contact_intent" -> "[CONTACT REQUEST BLOCKED]"
    [] violation_type = "contact_provision" -> "[CONTACT INFO BLOCKED]"
    [] violation_type = "contact_imperative" -> "[CONTACT REQUEST BLOCKED]"
    [] OTHER -> "[CONTACT INFO BLOCKED]"

\* the placeholder tokens a filtered content may hold
Placeholders == {GetReplacementText(t) : t \in MatchTypes}

Vocabulary == Words \cup Placeholders

\* the contents handed to scan_content
Texts == UNION {[1 .. n -> Vocabulary] : n \in 0 .. MaxWords}
NotText == [text |-> FALSE, words |-> << >>]
Contents == {[text |-> TRUE, words |-> w] : w \in Texts} \cup {NotText}

\* one entry of a detector's result: its "type", the layer and the number of
\* the pattern in the layer's list, and the words of its "position"
Match(type, layer, pattern, from, to) ==
  [type |-> type, layer |-> layer, pattern |-> pattern, first |-> from, last |-> to]

\* _detect_phones: re.finditer of every phone pattern, re.IGNORECASE
DetectPhones(c) ==
  {Match("phone_number", "phone", p, i, i) :
     p \in {1, 6, 9, 11}, i \in {j \in 1 .. Len(c) : c[j] = PhoneLiteral}}
  \cup
  \* pattern 7, (?:call|text|phone)[\s:]*\d{3}
  {Match("phone_number", "phone", 7, i, i + 1) :
     i \in {j \in 1 .. Len(c) - 1 : c[j] = "call" /\ c[j + 1] = PhoneLiteral}}

\* email pattern 4, (?:email|gmail|yahoo|hotmail|outlook)[\s:]*[A-Za-z0-9._%+-]+,
\* from word i on: matches are found left to right and do not overlap
RECURSIVE KeywordEmails(_, _)
KeywordEmails(c, i) ==
  IF i > Len(c) THEN {}
  ELSE IF c[i] = "email" /\ i < Len(c) /\ c[i + 1] \in Words
    THEN {Match("email_address", "email", 4, i, i + 1)} \cup KeywordEmails(c, i + 2)
  ELSE IF c[i] = "[EMAIL BLOCKED]"
    \* "EMAIL" and then "BLOCKED", inside the brackets
    THEN {Match("email_address", "email", 4, i, i)} \cup KeywordEmails(c, i + 1)
  ELSE KeywordEmails(c, i + 1)

\* _detect_emails: re.finditer of every email pattern, re.IGNORECASE
DetectEmails(c) ==
  {Match("email_address", "email", p, i, i) :
     p \in {1, 3}, i \in {j \in 1 .. Len(c) : c[j] = AddressLiteral}}
  \cup KeywordEmails(c, 1)

\* _detect_contact_intent: intent pattern 1,
\* (?:call|text|email|contact|reach)\s+me\s+(?:at|on|directly)
DetectContactIntent(c) ==
  {Match("contact_intent", "intent", 1, i, i + 2) :
     i \in {j \in 1 .. Len(c) - 2 :
              c[j] \in {"call", "email"} /\ c[j + 1] = "me" /\ c[j + 2] = "at"}}

\* content.split('.'): the sentences, as the first and the last word of each;
\* the full stop of the address ends one sentence and begins the next
Sentences(c) ==
  LET breaks == {0, Len(c) + 1} \cup {j \in 1 .. Len(c) : c[j] = AddressLiteral}
  IN  {<<IF a = 0 THEN 1 ELSE a, IF b = Len(c) + 1 THEN Len(c) ELSE b>> :
         <<a, b>> \in {ab \in breaks \X breaks :
                         /\ ab[1] < ab[2]
                         /\ \A k \in breaks : ~(ab[1] < k /\ k < ab[2])}}

\* _analyze_context: per sentence, one contact_imperative when it holds
\* "call me" or "email me", one contact_provision when it holds "email me at"
AnalyzeContext(c) ==
  {Match("contact_imperative", "context", 1, s[1], s[2]) :
     s \in {t \in Sentences(c) :
              \E j \in t[1] .. t[2] - 1 : c[j] \in {"call", "email"} /\ c[j + 1] = "me"}}
  \cup
  {Match("contact_provision", "context", 2, s[1], s[2]) :
     s \in {t \in Sentences(c) :
              \E j \in t[1] .. t[2] - 2 :
                 c[j] = "email" /\ c[j + 1] = "me" /\ c[j + 2] = "at"}}

\* self._detect_social_media and self._detect_obfuscation: the class defines
\* neither method, the attribute lookup raises
DetectSocialMedia == "AttributeError"
DetectObfuscation == "AttributeError"

CalculateRiskLevel_MediumFirst(types) ==
  IF types = {} THEN "low"
  ELSE IF types \cap {"contact_intent", "contact_imperative"} # {} THEN "medium"
  ELSE IF types \cap {"phone_number", "email_address", "contact_provision"} # {} THEN "high"
  ELSE "low"
\* _calculate_risk_level, of the types of the violations
CalculateRiskLevel(types) ==
  IF types = {} THEN "low"
  ELSE IF types \cap {"phone_number", "email_address", "contact_provision"} # {} THEN "high"
  ELSE IF types \cap {"contact_intent", "contact_imperative"} # {} THEN "medium"
  ELSE "low"

\* what scan_content did: the call raised, with the matches found until then
Raised(content, exception, found) ==
  [op |-> "scan", content |-> content, outcome |-> exception, matches |-> found]

\* scan_content(content, user_id): what the call does
ScanOutcome(content) ==
  LET c == content.words
      layer1 == DetectPhones(c) \cup DetectEmails(c)
      all_violations == layer1 \cup DetectContactIntent(c) \cup AnalyzeContext(c)
  IN   IF ~content.text
         THEN \* content.lower()
              Raised(content, "AttributeError", {})
       ELSE IF DetectSocialMedia # "ok"
         THEN Raised(content, DetectSocialMedia, layer1)
       ELSE IF DetectObfuscation # "ok"
         THEN Raised(content, DetectObfuscation, layer1 \cup DetectContactIntent(c))
       ELSE [op |-> "scan", content |-> content, outcome |-> "ScanResult",
             matches |-> all_violations,
             violations_found |-> all_violations # {},
             violation_types |-> {m.type : m \in all_violations},
             risk_level |-> CalculateRiskLevel({m.type : m \in all_violations})]

\* scan_content(content, user_id)
ScanContent(content) ==
  /\ scanned' = ScanOutcome(content)
  /\ UNCHANGED operation

\* _calculate_risk_level(violations), by itself
AssessRisk(types) ==
  /\ scanned' = [op |-> "risk", types |-> types, risk_level |-> CalculateRiskLevel(types)]
  /\ UNCHANGED operation

(***************************************************************************)
(* _apply_content_filtering, character by character.  A character of the   *)
(* content is the offset it has in the content plus one; the characters of *)
(* a replacement text are 0.  The replacement texts have 15 to 25          *)
(* characters, more than a short match: here PlaceholderLen characters.    *)
(***************************************************************************)
PlaceholderLen == 3
ReplacementChar == 0
ReplacementText == [i \in 1 .. PlaceholderLen |-> ReplacementChar]

\* the content of n characters
Original(n) == [i \in 1 .. n |-> i]
\* the "position" of a match in a content of n characters: match.span()
Spans(n) == {<<a, b>> \in (0 .. n) \X (0 .. n) : a < b}
\* the violations with a "position", in the order the layers found them
ViolationLists(n) == UNION {[1 .. k -> Spans(n)] : k \in 0 .. MaxMatches}

\* text[:k] and text[k:]
Upto(text, k) == SubSeq(text, 1, Min(k, Len(text)))
From(text, k) == SubSeq(text, Min(k, Len(text)) + 1, Len(text))

\* sorted(violations, key=start, reverse=True): stable, so violations of
\* equal start keep their order
RECURSIVE SortedByStartDescending(_)
SortedByStartDescending(violations) ==
  IF Len(violations) = 0 THEN << >>
  ELSE LET sorted == SortedByStartDescending(SubSeq(violations, 1, Len(violations) - 1))
           v == violations[Len(violations)]
           \* v goes behind the violations that start at or after it
           k == Cardinality({i \in 1 .. Len(sorted) : sorted[i][1] >= v[1]})
       IN  SubSeq(sorted, 1, k) \o <<v>> \o SubSeq(sorted, k + 1, Len(sorted))

\* filtered_content[:start] + replacement + filtered_content[end:], one
\* violation after the other, the positions being those in the content
RECURSIVE ReplaceAll(_, _)
ReplaceAll(filtered_content, violations_sorted) ==
  IF Len(violations_sorted) = 0 THEN filtered_content
  ELSE LET start == violations_sorted[1][1]
           end == violations_sorted[1][2]
       IN  ReplaceAll(Upto(filtered_content, start) \o ReplacementText
                        \o From(filtered_content, end),
                      Tail(violations_sorted))

ApplyContentFiltering(content, violations) ==
  ReplaceAll(content, SortedByStartDescending(violations))

\* _apply_content_filtering(content, violations), by itself
FilterContent(n, violations) ==
  /\ scanned' = [op |-> "filter", content |-> Original(n), violations |-> violations,
                 filtered |-> ApplyContentFiltering(Original(n), violations)]
  /\ UNCHANGED operation

(***************************************************************************)
(* BaseAgent.publish_event (src/core/base/base_agent.py)                   *)
(* The data of an event is a dict; a value is a string, a list that holds  *)
(* a string, or a number.                                                  *)
(***************************************************************************)
DataKeys == {"k1", "k2"}
\* the strings of the data explored: one word each
OutgoingTexts == {[text |-> TRUE, words |-> <<w>>] : w \in Vocabulary}
DataValues ==
  {[kind |-> "str", content |-> t] : t \in OutgoingTexts}
    \cup {[kind |-> "list", content |-> t] : t \in OutgoingTexts}
    \cup {[kind |-> "int", content |-> NotText]}
EventData == [DataKeys -> DataValues]

\* _apply_contact_protection, one value: a string is scanned and, with
\* violations found, replaced by the filtered content; other data passes
ProtectedValue(value) ==
  IF value.kind = "str"
    THEN IF ScanOutcome(value.content).outcome # "ScanResult" THEN value
         ELSE IF ScanOutcome(value.content).violations_found
           THEN [kind |-> "content_filtered", content |-> value.content]
         ELSE value
    ELSE value

\* the scan of some string of the data raised
ProtectionRaises(data) ==
  \E k \in DataKeys :
    data[k].kind = "str" /\ ScanOutcome(data[k].content).outcome # "ScanResult"

\* publish_event(stream, event_type, data)
PublishEvent(data) ==
  /\ published' =
       IF ProtectionRaises(data)
         THEN [op |-> "publish", data |-> data, outcome |-> "AttributeError"]
         ELSE [op |-> "publish", data |-> data, outcome |-> "published",
               event |-> [k \in DataKeys |-> ProtectedValue(data[k])]]
  /\ UNCHANGED <<scanned, operation, near_ceiling, delivery, conversation, locks>>

(***************************************************************************)
(* EventHandlerMixin (src/core/base/event_mixin.py): the processing of a   *)
(* consumed event, its handler failing or not                              *)
(***************************************************************************)
Events == {"e1", "e2"}
\* event_config["max_retries"]
MaxRetries == 3

\* no copy of the event is in the stream
NotDelivered ==
  [live |-> FALSE, retry_count |-> 0, republished |-> 0,
   attempts |-> 0, acknowledged |-> 0, unacknowledged |-> 0, dead_letter |-> FALSE]

\* an event arrives in the stream, with the retry_count its producer gave it
\* at the top level, 0 when it has none
Arrives(e, retry_count) ==
  /\ ~delivery[e].live
  /\ delivery[e].attempts = 0
  /\ delivery' = [delivery EXCEPT ![e] = [NotDelivered EXCEPT !.live = TRUE,
                                            !.retry_count = retry_count]]

\* publish_event(event_data=event): the event goes into "data" of a new
\* payload, whose top level has no retry_count
RepublishedRetryCount(retry_count) == 0

\* _process_single_event(event, consumer_group)
\*   handler_ok: the handler returns; publish_ok: publish_event returns
ProcessSingleEvent(e, handler_ok, publish_ok) ==
  LET d == delivery[e]
      consumed == [d EXCEPT !.attempts = @ + 1]
  IN
  /\ d.live
  /\ d.attempts < MaxAttempts
  /\ delivery' = [delivery EXCEPT ![e] =
       IF handler_ok
         THEN \* _acknowledge_event
              [consumed EXCEPT !.live = FALSE, !.acknowledged = @ + 1]
       \* _handle_event_failure
       ELSE IF d.retry_count < MaxRetries
         THEN IF publish_ok
                THEN \* republished for retry; the copy consumed is not acknowledged
                     [consumed EXCEPT !.retry_count = RepublishedRetryCount(d.retry_count + 1),
                                      !.republished = @ + 1,
                                      !.unacknowledged = @ + 1]
                ELSE \* publish_event raises, and so does _process_single_event
                     [consumed EXCEPT !.live = FALSE, !.unacknowledged = @ + 1]
       ELSE \* _send_to_dead_letter_queue swallows a failure of publish_event
            [consumed EXCEPT !.live = FALSE, !.dead_letter = publish_ok,
                             !.acknowledged = @ + 1]]

(***************************************************************************)
(* The cost-incurring operations: NLPProcessor.extract_project_info,       *)
(* DataExtractor.extract_project_data, ConversationHandler.start_conversation *)
(* and ConversationHandler.process_message, each on the CostCircuitBreaker *)
(* its object holds                                                        *)
(***************************************************************************)
Operations == {"extract_project_info", "extract_project_data",
               "start_conversation", "process_message"}
\* estimated_cost of the operation (0.03, 0.015, 0.025, 0.02): each below
\* the per-event limit
EstimatedCostOf(op) == 1
\* what the work after the cost control check does
WorkOutcomes == {"returns", "raises"}

\* "if not await self.cost_breaker.check_cost_approval(estimated_cost)": the
\* decision is a dict with entries, true as a condition whatever it holds
CostLimitExceeded(decision) == FALSE

\* the operation, from its cost control check to its return
RunOperation(op, ans, work) ==
  /\ CheckCost(EstimatedCostOf(op), ans)
  /\ operation' = [op |-> op,
                   approved |-> last'.approved,
                   worked |-> ~CostLimitExceeded(last'),
                   completed |-> ~CostLimitExceeded(last') /\ work = "returns"]
  /\ UNCHANGED scanned

(***************************************************************************)
(* ConversationHandler                                                     *)
(* (src/agents/homeowner_intake/conversation_handler.py): the states of a  *)
(* conversation and the processing of a message                            *)
(***************************************************************************)
ConversationState == {"started", "gathering_basics", "clarifying_details",
                      "finalizing", "completed", "blocked"}
QuestionType == {"project_type", "budget_range", "timeline", "specific_requirements",
                 "location_details", "style_preferences", "special_considerations",
                 "confirmation"}
\* ConversationContext.max_clarification_attempts
max_clarification_attempts == 5
NoConversation == [state |-> "none"]

\* clarification_needed as _analyze_initial_message leaves it
InitialNeeds == {{"project_type", "budget_range", "timeline", "specific_requirements",
                  "location_details"},
                 {"budget_range", "timeline"},
                 {}}
\* the context start_conversation would store
StartedContexts ==
  {[state |-> "gathering_basics", clarification_needed |-> needed,
    clarification_attempts |-> 0, security_violations |-> 0] : needed \in InitialNeeds}

\* a message: whether it holds contact information, what
\* _analyze_message_content finds in it, and whether it confirms ("yes"),
\* corrects ("no") or does neither
ProvidedInfo == {{}, {"project_type", "specific_requirements"},
                 {"budget_range", "timeline", "location_details"}}
Messages == [contact : BOOLEAN, provides : ProvidedInfo,
             answer : {"confirm", "correct", "other"}]

\* _calculate_completeness(context), times 80
CalculateCompleteness(context) ==
  LET essential_categories == {"project_type", "specific_requirements",
                               "budget_range", "timeline"}
      collected_essential == Cardinality(essential_categories \ context.clarification_needed)
      collected_details == Cardinality(QuestionType) - Cardinality(context.clarification_needed)
      score == 20 * collected_essential + 3 * collected_details
  IN IF score < 80 THEN score ELSE 80

\* _handle_security_violation(context, violations)
HandleSecurityViolation(context) ==
  [context EXCEPT !.security_violations = @ + 1,
                  !.state = IF context.security_violations + 1 >= 3 THEN "blocked" ELSE @]

\* _process_basic_gathering(context, message)
ProcessBasicGathering(context, message) ==
  LET needed == context.clarification_needed \ message.provides
  IN [context EXCEPT !.clarification_needed = needed,
                     !.state = IF {"project_type", "specific_requirements"} \cap needed = {}
                                 THEN "clarifying_details" ELSE @]

\* _process_detail_clarification(context, message)
ProcessDetailClarification(context, message) ==
  LET answered == [context EXCEPT !.clarification_needed = @ \ message.provides]
  IN [answered EXCEPT !.state =
        IF CalculateCompleteness(answered) >= 64 \/ answered.clarification_needed = {}
          THEN "finalizing" ELSE @]

\* _process_finalization(context, message)
ProcessFinalization(context, message) ==
  [context EXCEPT !.state = CASE message.answer = "confirm" -> "completed"
                              [] message.answer = "correct" -> "clarifying_details"
                              [] OTHER -> @]

\* _process_message_by_state(context, message)
ProcessMessageByState(context, message) ==
  CASE context.state = "gathering_basics" -> ProcessBasicGathering(context, message)
    [] context.state = "clarifying_details" -> ProcessDetailClarification(context, message)
    [] context.state = "finalizing" -> ProcessFinalization(context, message)
    [] OTHER -> context

\* _update_conversation_state(context)
UpdateConversationState(context) ==
  LET attempts == IF context.clarification_needed # {}
                    THEN context.clarification_attempts + 1
                    ELSE context.clarification_attempts
      complete == CalculateCompleteness(context) >= 72 /\ context.state # "completed"
  IN [context EXCEPT !.clarification_attempts = attempts,
                     !.state = IF attempts >= max_clarification_attempts THEN "finalizing"
                               ELSE IF complete THEN "finalizing"
                               ELSE @]

\* "self.contact_filter.scan_content(message)": scan_content(self, content,
\* user_id, context=None) is called without its user_id
ScreenMessage(message) == "TypeError"

\* process_message(conversation_id, user_id, message)
\*   ans: the answer of the cost tracking store; load_ok: the store returns
\*   the conversation; store_ok: the store takes the conversation
ProcessMessage(message, ans, load_ok, store_ok) ==
  LET context == IF load_ok THEN conversation.context ELSE NoConversation
      sent == IF message.contact THEN conversation.contact_messages + 1
              ELSE conversation.contact_messages
      updated == UpdateConversationState(ProcessMessageByState(context, message))
  IN
  /\ CheckCost(EstimatedCostOf("process_message"), ans)
  /\ conversation.context # NoConversation
  /\ sent <= MaxContactMessages
  /\ conversation' =
       IF CostLimitExceeded(last') \/ context = NoConversation
         THEN \* "Cost limit exceeded", or "Conversation not found"
              [conversation EXCEPT !.reply = "raised", !.contact_messages = sent]
       ELSE IF context.state = "blocked"
         THEN [conversation EXCEPT !.reply = "suspended", !.contact_messages = sent]
       ELSE IF ScreenMessage(message) = "TypeError"
         THEN [conversation EXCEPT !.reply = "raised", !.contact_messages = sent]
       ELSE IF message.contact
         THEN \* the violation is counted in the context, which is not stored
              [conversation EXCEPT !.reply = "contact_warning", !.contact_messages = sent]
       ELSE [context |-> IF store_ok THEN updated ELSE conversation.context,
             reply |-> "response", contact_messages |-> sent]

\* the store comes to hold the conversation of a start_conversation
PutConversation(context) ==
  /\ conversation.context = NoConversation
  /\ conversation' = [conversation EXCEPT !.context = context]

\* a method of the handler has made the context of the conversation the
\* updated one
OnContext(updated) ==
  /\ conversation.context # NoConversation
  /\ conversation.context.security_violations < MaxSecurityViolations
  /\ conversation.context.clarification_attempts < MaxClarifications
  /\ conversation' = [conversation EXCEPT !.context = updated]

(***************************************************************************)
(* RedisClient (src/core/memory/redis_client.py): the distributed lock     *)
(***************************************************************************)
Callers == {"a1", "a2", "a3"}
LockKeys == {"lock:k1", "lock:k2"}

\* acquire_lock(lock_key, timeout_seconds): SET key value NX EX timeout;
\* False when the key exists, and when the call raises
AcquireLock(k, mcp_ok) == mcp_ok /\ locks.ttl[k] = 0

\* "async with distributed_lock(lock_key)", up to the yield: the caller is
\* inside the section when the lock was acquired, and gets the exception
\* "Failed to acquire lock" otherwise
EnterSection(c, k, mcp_ok) ==
  /\ k \notin locks.inside[c]
  /\ locks' = IF AcquireLock(k, mcp_ok)
                THEN [ttl |-> [locks.ttl EXCEPT ![k] = LockTimeout],
                      inside |-> [locks.inside EXCEPT ![c] = @ \cup {k}]]
                ELSE locks

\* the end of the section: release_lock(lock_key), DEL key, whoever set it;
\* a call that raises is logged
LeaveSection(c, k, mcp_ok) ==
  /\ k \in locks.inside[c]
  /\ locks' = [ttl |-> IF mcp_ok THEN [locks.ttl EXCEPT ![k] = 0] ELSE locks.ttl,
               inside |-> [locks.inside EXCEPT ![c] = @ \ {k}]]

\* the clock of Redis: a key is gone when its expiry has passed
ExpireLocks ==
  /\ \E k \in LockKeys : locks.ttl[k] > 0
  /\ locks' = [locks EXCEPT !.ttl = [k \in LockKeys |->
                                       IF locks.ttl[k] > 0 THEN locks.ttl[k] - 1 ELSE 0]]

ledger == <<recorded_today, recorded_this_hour>>
\* what only the specifications with calls in flight change
inflight == <<calls, serial_level, clean, pending>>
\* what the specifications written after those of the contact filter and of
\* the callers change
rest == <<near_ceiling, published, delivery, conversation, locks>>
\* what only the specifications from those of the contact filter and of the
\* callers on change
frontend == <<scanned, operation, rest>>

Check == \E est \in EstimatedCosts, ans \in StoreAnswers :
           /\ CheckCost(est, ans)
           /\ Len(violation_history') <= MaxHistory
           /\ UNCHANGED ledger
           /\ UNCHANGED frontend
           /\ UNCHANGED inflight
Record == \E cost \in ActualCosts, mcp_ok \in BOOLEAN :
           /\ RecordCost(cost, mcp_ok)
           /\ Len(violation_history') <= MaxHistory
           /\ UNCHANGED ledger
           /\ UNCHANGED frontend
           /\ UNCHANGED inflight
Reset == \E key_ok \in BOOLEAN, log_ok \in BOOLEAN :
           /\ ResetBreaker(key_ok, log_ok)
           /\ UNCHANGED ledger
           /\ UNCHANGED frontend
           /\ UNCHANGED inflight
Tick == AdvanceClock /\ UNCHANGED ledger /\ UNCHANGED inflight /\ UNCHANGED frontend

Next == Check \/ Record \/ Reset \/ Tick

Spec == Init /\ [][Next]_vars

\* the breaker with the ledger of the costs recorded in the current date and
\* hour kept beside it
RecordInLedger == \E cost \in ActualCosts, mcp_ok \in BOOLEAN :
           /\ RecordCost(cost, mcp_ok)
           /\ Len(violation_history') <= MaxHistory
           /\ recorded_today' = recorded_today + cost
           /\ recorded_this_hour' = recorded_this_hour + cost
           /\ UNCHANGED inflight
           /\ UNCHANGED frontend
TickLedger ==
  /\ AdvanceClock
  /\ recorded_today' = IF DateOf(now + 1) # DateOf(now) THEN 0 ELSE recorded_today
  /\ recorded_this_hour' = 0
  /\ UNCHANGED inflight
  /\ UNCHANGED frontend

NextLedger == Check \/ RecordInLedger \/ Reset \/ TickLedger

SpecLedger == Init /\ [][NextLedger]_vars

Violate == \E user \in Users, severity \in Severities, read \in ReadOutcomes,
              write_ok \in BOOLEAN, enf \in EnforceOutcomes :
             /\ ProcessViolation(user, severity, read, write_ok, enf)
             /\ UNCHANGED ledger
             /\ UNCHANGED frontend
             /\ UNCHANGED inflight

NextTracker == Violate \/ Tick

SpecTracker == Init /\ [][NextTracker]_vars

\* the breaker with actual costs of either sign
RecordSigned == \E cost \in SignedCosts, mcp_ok \in BOOLEAN :
           /\ RecordCost(cost, mcp_ok)
           /\ daily_cost + cost >= -MaxTotal
           /\ hourly_cost + cost >= -MaxTotal
           /\ Len(violation_history') <= MaxHistory
           /\ UNCHANGED ledger
           /\ UNCHANGED frontend
           /\ UNCHANGED inflight

NextSigned == Check \/ RecordSigned \/ Reset

SpecSigned == Init /\ [][NextSigned]_vars

\* the breaker with a violation history long enough for the suspicious-pattern
\* detection to fire
CheckAdvisory == \E est \in EstimatedCosts, ans \in StoreAnswers :
           /\ CheckCost(est, ans)
           /\ Len(violation_history') <= MaxAdvisoryHistory
           /\ UNCHANGED ledger
           /\ UNCHANGED frontend
           /\ UNCHANGED inflight

NextAdvisory == CheckAdvisory \/ Tick

SpecAdvisory == Init /\ [][NextAdvisory]_vars

\* the tracker with two tasks inside process_violation at the same time
Build == \E t \in Tasks, user \in Users, severity \in TaskSeverities,
            read \in ReadOutcomes :
           /\ BuildRecord(t, user, severity, read)
           /\ UNCHANGED ledger
           /\ UNCHANGED frontend
Store == \E t \in Tasks, write_ok \in BOOLEAN :
           /\ StoreViolationRecord(t, write_ok)
           /\ UNCHANGED ledger
           /\ UNCHANGED frontend
Enforce == \E t \in Tasks, enf \in EnforceOutcomes :
           /\ EnforceRecord(t, enf)
           /\ UNCHANGED ledger
           /\ UNCHANGED frontend
End == \E t \in Tasks :
           /\ EndViolation(t)
           /\ UNCHANGED ledger
           /\ UNCHANGED frontend

NextTasks == Build \/ Store \/ Enforce \/ End

SpecTasks == Init /\ [][NextTasks]_vars

\* the breaker with record calls running while a check awaits the store
Begin == \E est \in EstimatedCosts :
           /\ BeginCheck(est)
           /\ UNCHANGED ledger
           /\ UNCHANGED frontend
           /\ UNCHANGED <<calls, serial_level, clean>>
Finish == \E ans \in StoreAnswers :
           /\ EndCheck(ans)
           /\ Len(violation_history') <= MaxHistory
           /\ UNCHANGED ledger
           /\ UNCHANGED frontend
           /\ UNCHANGED <<calls, serial_level, clean>>
Meanwhile == \E cost \in ActualCosts, mcp_ok \in BOOLEAN :
           /\ RecordMeanwhile(cost, mcp_ok)
           /\ Len(violation_history') <= MaxHistory
           /\ UNCHANGED ledger
           /\ UNCHANGED frontend
           /\ UNCHANGED <<calls, serial_level, clean>>
Pass == ~pending.active /\ Tick

NextOverlap == Begin \/ Finish \/ Meanwhile \/ Pass

SpecOverlap == Init /\ [][NextOverlap]_vars

\* the breaker with the count of the near-ceiling check calls of the last
\* five minutes kept beside it; a tick of the clock is an hour
NearCeiling(est) == 10 * est > 8 * cfg.per_event_limit
CheckCounted == \E est \in EstimatedCosts, ans \in StoreAnswers :
           /\ CheckCost(est, ans)
           /\ Len(violation_history') <= MaxAdvisoryHistory
           /\ near_ceiling' = IF NearCeiling(est) THEN near_ceiling + 1 ELSE near_ceiling
           /\ near_ceiling' <= MaxRequests
           /\ UNCHANGED ledger
           /\ UNCHANGED inflight
           /\ UNCHANGED <<scanned, operation, published, delivery, conversation, locks>>
TickCounted ==
  /\ AdvanceClock
  /\ near_ceiling' = 0
  /\ UNCHANGED ledger
  /\ UNCHANGED inflight
  /\ UNCHANGED <<scanned, operation, published, delivery, conversation, locks>>

NextFrequency == CheckCounted \/ TickCounted

SpecFrequency == Init /\ [][NextFrequency]_vars

\* the contact filter
Scan == \E content \in Contents :
           /\ ScanContent(content)
           /\ UNCHANGED rest
           /\ UNCHANGED <<now, last>>
           /\ UNCHANGED breakerVars
           /\ UNCHANGED trackerVars
           /\ UNCHANGED ledger
           /\ UNCHANGED inflight
Assess == \E types \in SUBSET MatchTypes :
           /\ AssessRisk(types)
           /\ UNCHANGED rest
           /\ UNCHANGED <<now, last>>
           /\ UNCHANGED breakerVars
           /\ UNCHANGED trackerVars
           /\ UNCHANGED ledger
           /\ UNCHANGED inflight

NextScanner == Scan \/ Assess

SpecScanner == Init /\ [][NextScanner]_vars

\* the filtering of a content
Filter == \E n \in 1 .. MaxChars : \E violations \in ViolationLists(n) :
           /\ FilterContent(n, violations)
           /\ UNCHANGED rest
           /\ UNCHANGED <<now, last>>
           /\ UNCHANGED breakerVars
           /\ UNCHANGED trackerVars
           /\ UNCHANGED ledger
           /\ UNCHANGED inflight

NextFilter == Filter

SpecFilter == Init /\ [][NextFilter]_vars

\* the publishing of events
Publish == \E data \in EventData :
           /\ PublishEvent(data)
           /\ UNCHANGED <<now, last>>
           /\ UNCHANGED breakerVars
           /\ UNCHANGED trackerVars
           /\ UNCHANGED ledger
           /\ UNCHANGED inflight

NextPublish == Publish

SpecPublish == Init /\ [][NextPublish]_vars

\* the processing of events
Arrive == \E e \in Events, retry_count \in 0 .. MaxRetries :
           /\ Arrives(e, retry_count)
           /\ UNCHANGED <<scanned, operation, near_ceiling, published, conversation, locks>>
           /\ UNCHANGED <<now, last>>
           /\ UNCHANGED breakerVars
           /\ UNCHANGED trackerVars
           /\ UNCHANGED ledger
           /\ UNCHANGED inflight
Process == \E e \in Events, handler_ok \in BOOLEAN, publish_ok \in BOOLEAN :
           /\ ProcessSingleEvent(e, handler_ok, publish_ok)
           /\ UNCHANGED <<scanned, operation, near_ceiling, published, conversation, locks>>
           /\ UNCHANGED <<now, last>>
           /\ UNCHANGED breakerVars
           /\ UNCHANGED trackerVars
           /\ UNCHANGED ledger
           /\ UNCHANGED inflight

NextEvents == Arrive \/ Process

SpecEvents == Init /\ [][NextEvents]_vars

\* the conversation and its handler
others == <<scanned, operation, near_ceiling, published, delivery, locks>>
Put == \E context \in StartedContexts :
           /\ PutConversation(context)
           /\ UNCHANGED others
           /\ UNCHANGED <<now, last>>
           /\ UNCHANGED breakerVars
           /\ UNCHANGED trackerVars
           /\ UNCHANGED ledger
           /\ UNCHANGED inflight
Message == \E message \in Messages, ans \in StoreAnswers,
              load_ok \in BOOLEAN, store_ok \in BOOLEAN :
           /\ ProcessMessage(message, ans, load_ok, store_ok)
           /\ Len(violation_history') <= MaxHistory
           /\ UNCHANGED others
           /\ UNCHANGED trackerVars
           /\ UNCHANGED ledger
           /\ UNCHANGED inflight
HandleViolation ==
           /\ OnContext(HandleSecurityViolation(conversation.context))
           /\ UNCHANGED others
           /\ UNCHANGED <<now, last>>
           /\ UNCHANGED breakerVars
           /\ UNCHANGED trackerVars
           /\ UNCHANGED ledger
           /\ UNCHANGED inflight
ByState == \E message \in Messages :
           /\ OnContext(ProcessMessageByState(conversation.context, message))
           /\ UNCHANGED others
           /\ UNCHANGED <<now, last>>
           /\ UNCHANGED breakerVars
           /\ UNCHANGED trackerVars
           /\ UNCHANGED ledger
           /\ UNCHANGED inflight
UpdateState ==
           /\ OnContext(UpdateConversationState(conversation.context))
           /\ UNCHANGED others
           /\ UNCHANGED <<now, last>>
           /\ UNCHANGED breakerVars
           /\ UNCHANGED trackerVars
           /\ UNCHANGED ledger
           /\ UNCHANGED inflight

NextConversation == Put \/ Message \/ HandleViolation \/ ByState \/ UpdateState

SpecConversation == Init /\ [][NextConversation]_vars

\* the callers of the distributed lock
unlocked == <<scanned, operation, near_ceiling, published, delivery, conversation>>
Enter == \E c \in Callers, k \in LockKeys, mcp_ok \in BOOLEAN :
           /\ EnterSection(c, k, mcp_ok)
           /\ UNCHANGED unlocked
           /\ UNCHANGED <<now, last>>
           /\ UNCHANGED breakerVars
           /\ UNCHANGED trackerVars
           /\ UNCHANGED ledger
           /\ UNCHANGED inflight
Leave == \E c \in Callers, k \in LockKeys, mcp_ok \in BOOLEAN :
           /\ LeaveSection(c, k, mcp_ok)
           /\ UNCHANGED unlocked
           /\ UNCHANGED <<now, last>>
           /\ UNCHANGED breakerVars
           /\ UNCHANGED trackerVars
           /\ UNCHANGED ledger
           /\ UNCHANGED inflight
ExpireKeys ==
           /\ ExpireLocks
           /\ UNCHANGED unlocked
           /\ UNCHANGED <<now, last>>
           /\ UNCHANGED breakerVars
           /\ UNCHANGED trackerVars
           /\ UNCHANGED ledger
           /\ UNCHANGED inflight

NextLocks == Enter \/ Leave \/ ExpireKeys

SpecLocks == Init /\ [][NextLocks]_vars

\* the cost-incurring operations on their breaker
Operate == \E op \in Operations, ans \in StoreAnswers, work \in WorkOutcomes :
           /\ RunOperation(op, ans, work)
           /\ UNCHANGED rest
           /\ Len(violation_history') <= MaxHistory
           /\ UNCHANGED ledger
           /\ UNCHANGED inflight

NextCallers == Operate \/ Tick

SpecCallers == Init /\ [][NextCallers]_vars

(***************************************************************************)
(* Properties of the cost circuit breaker                                  *)
(***************************************************************************)
OpenToClosed == is_shutdown /\ ~is_shutdown'
ClosedToOpen == ~is_shutdown /\ is_shutdown'

\* C1: while the breaker is OPEN every check is rejected with the
\* emergency-shutdown reason, and the breaker stays OPEN until a reset
\* call with the authorized key succeeds.
C1_OpenRejectsUntilResetSucceeds ==
  [][ is_shutdown =>
        /\ (last'.op = "check" =>
              ~last'.approved /\ last'.reason = "emergency_shutdown")
        /\ (~is_shutdown' =>
              last'.op = "reset" /\ last'.key_ok /\ last'.success) ]_vars

\* C2: the breaker goes from OPEN to CLOSED only inside a reset call that
\* presented the authorized admin key; a check, a record, a rollover of the
\* date or hour and a reset with a wrong key leave an OPEN breaker OPEN.
C2_ClosesOnlyByAuthorizedReset ==
  [][ /\ (OpenToClosed => last'.op = "reset" /\ last'.key_ok)
      /\ (last'.op = "reset" /\ ~last'.key_ok =>
            ~last'.success /\ is_shutdown' = is_shutdown) ]_vars

\* a reset with a wrong key has just left an OPEN breaker OPEN
C2_Witness ==
  /\ last.op = "reset"
  /\ ~last.key_ok
  /\ is_shutdown

\* C3 as stated: the breaker goes from CLOSED to OPEN only inside check,
\* when the projected daily total exceeds emergency_threshold, and no record
\* call changes the breaker state.
C3_OnlyCheckOpens ==
  [][ /\ (ClosedToOpen =>
            last'.op = "check" /\ daily_cost' + last'.est > cfg.emergency_threshold)
      /\ (last'.op = "record" => is_shutdown' = is_shutdown) ]_vars

\* C3 amended: the breaker goes from CLOSED to OPEN only inside check, when
\* the projected daily total exceeds emergency_threshold, or inside record,
\* when the daily total with the actual cost added exceeds
\* emergency_threshold.
C3_OpensByCheckOrRecord ==
  [][ ClosedToOpen =>
        \/ last'.op = "check" /\ daily_cost' + last'.est > cfg.emergency_threshold
        \/ last'.op = "record" /\ daily_cost' > cfg.emergency_threshold ]_vars

\* a record call has just tripped a breaker that no check had tripped
C3_Witness ==
  /\ last.op = "record"
  /\ is_shutdown
  /\ shutdown_reason = "emergency_threshold_exceeded"
  /\ Len(violation_history) = 1

\* C4: a check call leaves daily_cost and hourly_cost as they were, except
\* that a total becomes zero when the call observes a new date or hour.
C4_CheckKeepsTotals ==
  [][ last'.op = "check" =>
        /\ \/ daily_cost' = daily_cost
           \/ daily_cost' = 0 /\ DateOf(now) > last_reset
        /\ \/ hourly_cost' = hourly_cost
           \/ hourly_cost' = 0 /\ HourOf(now) # current_hour ]_vars

\* C5: daily_cost is the sum of the actual costs recorded in the current
\* date and hourly_cost the sum of those recorded in the current hour.
C5_TotalsAreRecordedSums ==
  /\ daily_cost = recorded_today
  /\ hourly_cost = recorded_this_hour

\* C14: on a CLOSED breaker a check whose estimated cost is within
\* per_event_limit is approved if and only if the daily total plus the cost
\* is within daily_limit and the hourly total plus the cost is within
\* hourly_limit, the totals being those the breaker holds, zeroed when the
\* call observes a new date or hour.
C14_ApprovedIffWithinLimits ==
  [][ (last'.op = "check" /\ ~is_shutdown /\ last'.est <= cfg.per_event_limit) =>
        (last'.approved <=>
           /\ DailyAfterRollover + last'.est <= cfg.daily_limit
           /\ HourlyAfterRollover + last'.est <= cfg.hourly_limit) ]_vars

\* C15: check reports the first rejection condition that holds, in the
\* order breaker OPEN, per-event limit, daily limit, hourly limit: on a
\* CLOSED breaker an estimated cost above per_event_limit gets the per-event
\* reason whatever the totals are, the daily reason is given only within the
\* per-event limit, and the hourly reason only when the daily comparison
\* passed.
C15_FirstConditionInOrder ==
  [][ last'.op = "check" =>
        /\ (is_shutdown => last'.reason = "emergency_shutdown")
        /\ (~is_shutdown /\ last'.est > cfg.per_event_limit =>
              last'.reason = "per_event_exceeded")
        /\ (last'.reason = "daily_limit_exceeded" =>
              /\ ~is_shutdown
              /\ last'.est <= cfg.per_event_limit
              /\ daily_cost' + last'.est > cfg.daily_limit)
        /\ (last'.reason = "hourly_rate_exceeded" =>
              /\ ~is_shutdown
              /\ last'.est <= cfg.per_event_limit
              /\ daily_cost' + last'.est <= cfg.daily_limit
              /\ hourly_cost' + last'.est > cfg.hourly_limit) ]_vars

\* a check above the per-event limit has just been given the per-event
\* reason although the daily and the hourly limit would be exceeded too
C15_Witness ==
  /\ last.op = "check"
  /\ last.reason = "per_event_exceeded"
  /\ daily_cost + last.est > cfg.daily_limit
  /\ hourly_cost + last.est > cfg.hourly_limit

\* C16: on a CLOSED breaker with emergency_threshold >= daily_limit, a check
\* within the per-event limit whose projected daily total exceeds
\* emergency_threshold is rejected and leaves the breaker OPEN with the trip
\* reason stored.
C16_ProjectionOverEmergencyTrips ==
  [][ ( /\ last'.op = "check"
        /\ ~is_shutdown
        /\ cfg.emergency_threshold >= cfg.daily_limit
        /\ last'.est <= cfg.per_event_limit
        /\ daily_cost' + last'.est > cfg.emergency_threshold ) =>
        /\ ~last'.approved
        /\ is_shutdown'
        /\ shutdown_reason' = "projection_exceeds_emergency_threshold" ]_vars

\* a check within the per-event limit has just tripped the breaker
C16_Witness ==
  /\ last.op = "check"
  /\ last.reason = "daily_limit_exceeded"
  /\ last.est <= cfg.per_event_limit
  /\ daily_cost + last.est > cfg.emergency_threshold
  /\ is_shutdown
  /\ shutdown_reason = "projection_exceeds_emergency_threshold"

\* C17: a reset call leaves daily_cost and hourly_cost as they were; a
\* successful one changes nothing but the breaker state, which becomes
\* CLOSED, and its stored reason.
C17_ResetKeepsTotals ==
  [][ last'.op = "reset" =>
        /\ daily_cost' = daily_cost
        /\ hourly_cost' = hourly_cost
        /\ UNCHANGED <<cfg, current_hour, last_reset, violation_history>>
        /\ (last'.success => ~is_shutdown' /\ shutdown_reason' = "none") ]_vars

\* a successful reset has just closed a breaker that a record call had
\* tripped, the totals still above emergency_threshold
C17_Witness ==
  /\ last.op = "reset"
  /\ last.success
  /\ ~is_shutdown
  /\ daily_cost > cfg.emergency_threshold
  /\ hourly_cost > 0

\* C18: a check in which an internal step fails, the read of the current
\* costs from the store included, is not approved.
C18_FailedReadIsRejected ==
  [][ \A est \in EstimatedCosts, ans \in StoreAnswers :
        (ans.status = "raise" /\ CheckCost(est, ans)) => ~last'.approved ]_vars

\* C19: a check on a CLOSED breaker that is the first call after the clock
\* entered a new hour compares against an hourly total of zero, and one that
\* is the first call in a new date compares against a daily total of zero, so
\* that it is not rejected for costs of the previous window.
C19_CheckRollsOverFirst ==
  [][ (last.op = "tick" /\ last'.op = "check" /\ ~is_shutdown) =>
        /\ hourly_cost' = 0
        /\ (last'.reason = "hourly_rate_exceeded" => last'.est > cfg.hourly_limit)
        /\ (DateOf(now) # DateOf(now - 1) =>
              /\ daily_cost' = 0
              /\ (last'.reason = "daily_limit_exceeded" =>
                    last'.est > cfg.daily_limit)) ]_vars

\* C20: a record call that is the first call after the clock entered a new
\* hour leaves hourly_cost equal to its actual cost, and one that is the
\* first call in a new date leaves daily_cost equal to its actual cost.
C20_RecordRollsOverFirst ==
  [][ (last.op = "tick" /\ last'.op = "record") =>
        /\ hourly_cost' = last'.cost
        /\ (DateOf(now) # DateOf(now - 1) => daily_cost' = last'.cost) ]_vars

\* C13: a check and the record calls that ran while it awaited the store
\* leave daily_cost and hourly_cost as some sequential order of these calls
\* does: the check made after record calls adding up to some part of the
\* recorded costs and before the others, the store answering anything.
C13_CheckAndRecordLinearizable ==
  [][ (pending.active /\ ~pending'.active /\ pending.recorded > 0) =>
        \E ans \in StoreAnswers, before \in 0 .. pending.recorded :
          LET after == pending.recorded - before
              daily == IF ans.status = "success" THEN ans.daily_cost
                       ELSE IF pending.new_date THEN 0
                       ELSE pending.daily_cost + before
              hourly == IF pending.new_hour THEN 0
                        ELSE pending.hourly_cost + before
          IN  /\ daily_cost' = daily + after
              /\ hourly_cost' = hourly + after ]_vars

\* C21: daily_cost and hourly_cost are never negative, after any sequence
\* of check, record and reset calls.
C21_TotalsNeverNegative ==
  /\ daily_cost >= 0
  /\ hourly_cost >= 0

\* C23: the suspicious-pattern advisory never causes a rejection: a check
\* that passes the breaker-state, per-event, daily and hourly tests is
\* approved whether or not the advisory fires, and an advisory warning is
\* given only with an approved decision.
C23_AdvisoryNeverRejects ==
  [][ last'.op = "check" =>
        /\ ( ( /\ ~is_shutdown
               /\ last'.est <= cfg.per_event_limit
               /\ daily_cost' + last'.est <= cfg.daily_limit
               /\ hourly_cost' + last'.est <= cfg.hourly_limit ) => last'.approved )
        /\ ( last'.warning \in {"HIGH_FREQUENCY_EXPENSIVE_OPERATIONS",
                                 "RAPID_COST_ESCALATION"} => last'.approved ) ]_vars

\* a check has just been approved with the advisory fired
C23_Witness ==
  /\ last.op = "check"
  /\ last.approved
  /\ last.warning = "HIGH_FREQUENCY_EXPENSIVE_OPERATIONS"
  /\ Len(violation_history) > 3

\* C32: a check rejected for exceeding the per-event limit changes no part
\* of the cost state: the daily and hourly totals, the breaker state and the
\* recent-violations buffer are after the call what they were before it.
C32_PerEventRejectionChangesNothing ==
  [][ \A est \in EstimatedCosts, ans \in StoreAnswers :
        (CheckCost(est, ans) /\ last'.reason = "per_event_exceeded") =>
          UNCHANGED <<daily_cost, hourly_cost, is_shutdown, shutdown_reason,
                      violation_history>> ]_vars

\* C33: an approved check whose cost exceeds 80% of the per-event limit
\* carries the suspicious-pattern warning when more than three such
\* near-ceiling check calls were made in the preceding five minutes, and
\* carries no such warning when three or fewer were.
C33_WarnsAfterThreeNearCeiling ==
  [][ (last'.op = "check" /\ last'.approved /\ near_ceiling' = near_ceiling + 1) =>
        (last'.warning = "HIGH_FREQUENCY_EXPENSIVE_OPERATIONS" <=> near_ceiling > 3) ]_vars

(***************************************************************************)
(* Properties of the violation tracker                                     *)
(***************************************************************************)
\* the call that has just been made is a process_violation call
JustProcessed == last'.op = "process_violation"

\* C6: for every user the escalation levels recorded by successive
\* process_violation calls never decrease, whatever the reads of the store
\* return or fail with, and no recorded level exceeds the maximum level.
C6_RecordedLevelsNeverDecrease ==
  \A u \in Users :
    LET rows == security_violations[u]
    IN  /\ \A i \in 1 .. Len(rows) : rows[i].escalation_level <= MaxLevel
        /\ \A i \in 1 .. Len(rows) - 1 :
             rows[i].escalation_level <= rows[i + 1].escalation_level

\* C7: for a user at escalation level L, process_violation with severity s
\* returns a record whose level is min(L + points(s), 4) and whose action is
\* the ladder action of that level.
C7_ReturnsEscalatedRecord ==
  [][ JustProcessed =>
        LET L == HighestLevel(security_violations[last'.user])
            level == Min(L + SeverityPoints(last'.severity), 4)
        IN  /\ last'.result = "returned"
            /\ last'.record.escalation_level = level
            /\ last'.record.action_taken = EscalationAction(level) ]_vars

\* C8: from a user without violations, the k-th of four consecutive
\* low-severity calls completes with escalation level k, so the ban (level 4)
\* is applied at the fourth call and not before.
C8_FourLowsReachBanAtFourth ==
  (last.op = "process_violation" /\ only_low[last.user]
     /\ calls_made[last.user] <= 4)
    => /\ last.result = "returned"
       /\ last.record.escalation_level = calls_made[last.user]
       /\ (last.record.action_taken = "permanent_ban") = (calls_made[last.user] = 4)

\* C9: a process_violation call whose write of the record fails ends by
\* reporting that failure to its caller, and returns no record.
C9_StoreFailureIsReported ==
  [][ JustProcessed /\ ~last'.stored =>
        /\ last'.result = "raised"
        /\ last'.error = "StoreWriteFailed" ]_vars

\* C10: a process_violation call in which the enforcement action or a
\* notification fails still returns its record, keeps the persisted record
\* and leaves the user's escalation level at the new level.
C10_EnforcementFailureIsNotFatal ==
  [][ JustProcessed /\ ~last'.enforced =>
        /\ last'.result = "returned"
        /\ (last'.stored =>
              /\ security_violations'[last'.user] =
                   Append(security_violations[last'.user], last'.record)
              /\ HighestLevel(security_violations'[last'.user]) =
                   last'.record.escalation_level) ]_vars

\* C11: in every process_violation call the record is written to the store
\* before an enforcement side effect of the call is issued: a restriction,
\* suspension or ban is written only by a call whose record is in the store.
C11_RecordWrittenBeforeEnforcement ==
  [][ <<restrictions, suspension, ban, user_bans>>' #
        <<restrictions, suspension, ban, user_bans>> =>
        \E t \in Tasks :
          /\ calls[t].pc = "stored"
          /\ calls'[t].pc = "enforced"
          /\ calls[t].stored ]_vars

\* C12: process_violation calls of one user that run at the same time leave
\* the user at the level that the same calls run one after the other leave,
\* each adding its severity points up to the maximum level, provided no read
\* and no write of the store failed.
C12_ConcurrentCallsAddUp ==
  \A u \in Users :
    (clean[u] /\ \A t \in Tasks : calls[t].pc = "idle") =>
      HighestLevel(security_violations[u]) = serial_level[u]

\* the rung of an account status on the ladder active, restricted,
\* suspended, banned
StatusRung(status) ==
  CASE status = "active" -> 0
    [] status = "restricted" -> 1
    [] status = "suspended" -> 2
    [] status = "banned" -> 3

\* C22: per user the account status only advances along active, restricted,
\* suspended, banned as process_violation calls are made, and once a call
\* has applied the permanent ban the status is banned after every later
\* process_violation call.
C22_StatusAdvancesBanIsTerminal ==
  [][ JustProcessed =>
        LET u == last'.user
            before == AccountStatus(restrictions[u], suspension[u], ban[u])
            after == AccountStatus(restrictions'[u], suspension'[u], ban'[u])
        IN  /\ StatusRung(after) >= StatusRung(before)
            /\ (ban[u] => after = "banned") ]_vars

\* C28: process_violation enqueues an administrator alert if and only if
\* the severity is high or critical.
C28_AdminAlertIffHighOrCritical ==
  [][ JustProcessed =>
        (last'.admin_alert <=> last'.severity \in {"high", "critical"}) ]_vars

\* C31: the level a process_violation call starts from is the level written
\* by the latest process_violation call of the user, whatever the read of the
\* history returns.
C31_StartsFromLatestWrittenLevel ==
  [][ \A u \in Users, severity \in Severities, read \in ReadOutcomes,
         write_ok \in BOOLEAN, enf \in EnforceOutcomes :
        ( /\ last.op = "process_violation"
          /\ last.user = u
          /\ ProcessViolation(u, severity, read, write_ok, enf) )
          => ProfileLevel(u, read) = last.record.escalation_level ]_vars

\* C34: no process_violation call and no expiry of a temporary restriction
\* or suspension makes a restricted, suspended or banned user active again.
C34_NeverActiveAgain ==
  [][ \A u \in Users :
        AccountStatus(restrictions[u], suspension[u], ban[u]) # "active" =>
          AccountStatus(restrictions[u], suspension[u], ban[u])' # "active" ]_vars

(***************************************************************************)
(* Properties of the contact filter                                        *)
(***************************************************************************)
\* the matches of all detection layers that the class defines
LayerMatches(c) ==
  DetectPhones(c) \cup DetectEmails(c) \cup DetectContactIntent(c) \cup AnalyzeContext(c)

\* C24: scan_content never raises: for every content, a text or not, it
\* returns a scan result, and for a content that is not a text the result
\* reports no violations.
C24_ScanNeverRaises ==
  scanned.op = "scan" =>
    /\ scanned.outcome = "ScanResult"
    /\ (~scanned.content.text => ~scanned.violations_found)

\* C25: no placeholder token is matched by a detection rule: no match that
\* scan_content finds in a content touches a placeholder of the content, so
\* scanning a filtered content finds nothing in its placeholders.
C25_PlaceholdersMatchNoRule ==
  scanned.op = "scan" =>
    \A m \in scanned.matches :
      \A i \in m.first .. m.last : scanned.content.words[i] \notin Placeholders

\* C26: scan_content of a text reports violations_found = true exactly when
\* at least one detection layer produced a match, whatever the confidence of
\* the match.
C26_FoundIffSomeLayerMatched ==
  (scanned.op = "scan" /\ scanned.content.text) =>
    /\ scanned.outcome = "ScanResult"
    /\ (scanned.violations_found <=> LayerMatches(scanned.content.words) # {})

\* C27: for every set of matches the risk level is high if any match is a
\* phone, email or contact-provision match, otherwise medium if any match is
\* an intent or imperative match, otherwise low.
C27_RiskLevelByHighestType ==
  scanned.op = "risk" =>
    scanned.risk_level =
      IF \E t \in scanned.types : t \in {"phone_number", "email_address", "contact_provision"}
        THEN "high"
      ELSE IF \E t \in scanned.types : t \in {"contact_intent", "contact_imperative"}
        THEN "medium"
      ELSE "low"

C27_Witness ==
  /\ scanned.op = "risk"
  /\ scanned.types = {"contact_imperative", "phone_number", "social_media"}
  /\ scanned.risk_level = "high"

\* C35: for any matches, overlapping and nested ones included, the filtered
\* content holds no character of the content that lay inside the span of a
\* match.
C35_NoMatchedCharacterSurvives ==
  scanned.op = "filter" =>
    \A i \in 1 .. Len(scanned.filtered) :
      \A j \in 1 .. Len(scanned.violations) :
        LET ch == scanned.filtered[i]
            span == scanned.violations[j]
        IN  ~(ch # ReplacementChar /\ span[1] < ch /\ ch <= span[2])

\* C36: every publish_event call publishes its event, and every string of
\* its data in which a detection layer finds a violation, a string inside a
\* list included, is replaced by its filtered content in the event.
C36_EveryStringIsScanned ==
  published.op = "publish" =>
    /\ published.outcome = "published"
    /\ \A k \in DataKeys :
         ( /\ published.data[k].kind \in {"str", "list"}
           /\ LayerMatches(published.data[k].content.words) # {} )
           => published.event[k] # published.data[k]

(***************************************************************************)
(* Properties of the event processing                                      *)
(***************************************************************************)
\* C37: an event whose handler fails is republished for a retry at most
\* max_retries times, and once its handler has run more than max_retries
\* times no copy of it is left in the stream to be processed again.
C37_RetriedAtMostMaxRetries ==
  \A e \in Events :
    /\ delivery[e].republished <= MaxRetries
    /\ delivery[e].attempts > MaxRetries => ~delivery[e].live

(***************************************************************************)
(* Properties of the conversation handler                                  *)
(***************************************************************************)
\* C38: once three messages with contact information have been sent to a
\* conversation with process_message, the conversation is BLOCKED, and a
\* process_message on a BLOCKED conversation that the store returns is
\* answered with the suspension notice.
C38_BlockedAfterThreeContactMessages ==
  /\ conversation.contact_messages >= 3 => conversation.context.state = "blocked"
  /\ conversation.reply \in {"contact_warning", "response"} =>
       conversation.context.state # "blocked"

\* C39: a conversation that is COMPLETED stays COMPLETED, whatever
\* process_message call or update of the conversation state follows.
C39_CompletedStaysCompleted ==
  [][ conversation.context.state = "completed" =>
        conversation'.context.state = "completed" ]_vars

(***************************************************************************)
(* Properties of the distributed lock                                      *)
(***************************************************************************)
\* C40: at no time are two callers inside a distributed_lock section of
\* the same lock key, the expiry of a holder's lock included.
C40_OneCallerInsideSection ==
  \A k \in LockKeys : Cardinality({c \in Callers : k \in locks.inside[c]}) <= 1

(***************************************************************************)
(* Properties of the cost-incurring operations                             *)
(***************************************************************************)
\* C29: an operation whose cost check returned approved = false stops before
\* doing its work: an operation does its work only after an approved
\* decision.
C29_RejectedOperationStops ==
  operation.op \in Operations => (operation.worked => operation.approved)

\* C30: an operation that was approved and ran to completion records its
\* actual cost in the totals of its breaker, and an operation that was
\* rejected or aborted records nothing.
C30_CompletedOperationRecordsCost ==
  [][ (operation'.op \in Operations /\ now' = now) =>
        IF operation'.approved /\ operation'.completed
          THEN \E cost \in ActualCosts : hourly_cost' = HourlyAfterRollover + cost
          ELSE hourly_cost' \in {hourly_cost, HourlyAfterRollover} ]_vars

====
